---- MODULE Spec2Model ----
(***************************************************************************)
(* Model of python/player_proxy.py of OSD Lyrics: the registry             *)
(* BasePlayerProxy (ConnectPlayer, _player_lost_cb) and the session        *)
(* BasePlayer (caches, timer, control methods, change notifications).      *)
(*                                                                         *)
(* Conventions.  A Python attribute that is either None or a value is a    *)
(* set with no element (None) or one element (the value), so that 0,       *)
(* False and the empty set are values distinct from None.  Every action    *)
(* is one whole method call; `last` is the record of the most recent call: *)
(* its name, argument, the backend/driver calls it made, the D-Bus         *)
(* signals it emitted, its return value and the exception it raised.       *)
(***************************************************************************)
EXTENDS Integers, Sequences, FiniteSets, TLC

VARIABLES
    players,            \* every BasePlayer object the driver has created, by identity
    connected_players,  \* BasePlayerProxy._connected_players: dict name -> None | player
    PlayerLost,         \* number of PlayerLost(name) signals emitted so far, per name
    timer,              \* BasePlayer._timer
    status,             \* BasePlayer._status
    loop_status,        \* BasePlayer._loop_status
    metadata,           \* BasePlayer._metadata
    current_trackid,    \* BasePlayer._current_trackid
    caps,               \* BasePlayer._caps
    shuffle,            \* BasePlayer._shuffle
    backend,            \* the optional methods the derived player class implements
    last                \* the most recent call and what it did

vars == <<players, connected_players, PlayerLost, timer, status, loop_status,
          metadata, current_trackid, caps, shuffle, backend, last>>

registry_vars == <<players, connected_players, PlayerLost>>

session_vars == <<timer, status, loop_status, metadata, current_trackid, caps, shuffle>>

----------------------------------------------------------------------------
(* Bounds and input domains *)

MaxPlayers == 3

PlayerNames == {"a", "b"}

DriverOutcomes == {"TypeError", "None", "not_connected", "connected"}

----------------------------------------------------------------------------
(* Python values *)

None == {}

Some(v) == {v}

The(o) == CHOOSE v \in o : TRUE

\* truth value of `x` for x that is None or an object
Truthy(o) == o # None

NoCall == <<>>

NoSignal == <<>>

Call(op, arg, calls, events, ret, err, cause) ==
    [op |-> op, arg |-> arg, calls |-> calls, events |-> events,
     ret |-> ret, err |-> err, cause |-> cause]

\* class hierarchy of the exceptions: ConnectPlayerError(errors.BaseError)
IsInstance(e, cls) ==
    \/ e = cls
    \/ e = "ConnectPlayerError" /\ cls = "BaseError"

----------------------------------------------------------------------------
(* BasePlayerProxy *)

ProxyName == "proxy"

\* BasePlayer.__init__: PLAYER_PROXY_OBJECT_PATH_PREFIX + proxy.name + '/' + name
ObjectPath(name) == <<"PLAYER_PROXY_OBJECT_PATH_PREFIX", ProxyName, "/", name>>

\* the objects a bus client reaches through an object path
Resolve(ps, path) ==
    {p \in 1..Len(ps) : ps[p].on_bus /\ ObjectPath(ps[p].name) = path}

\* BasePlayer.__init__ as run by the driver, which names the player after player_name
NewPlayer(name) ==
    [name |-> name, connected |-> TRUE, on_bus |-> TRUE, disconnect_cb |-> None]

\* dict.setdefault(key, None)
SetDefault(d, key) ==
    IF key \in DOMAIN d THEN d ELSE [k \in DOMAIN d \cup {key} |-> IF k = key THEN None ELSE d[k]]

\* del d[key]
Del(d, key) == [k \in DOMAIN d \ {key} |-> d[k]]

SetItem_Skip(d, key, value) == d

\* d[key] = value
SetItem(d, key, value) == [k \in DOMAIN d \cup {key} |-> IF k = key THEN value ELSE d[k]]

AlreadyConnected_NoCheck(d, player_name) == FALSE

\* the test of line 112, on the dict after setdefault
AlreadyConnected(d, player_name) == Truthy(d[player_name])

\* the exception class raised at line 117
InstantiationError == "BaseError"

Usable_IgnoringConnected(outcome) == outcome \in {"connected", "not_connected"}

\* the test of line 120: `player and player.connected`
Usable(outcome) == outcome = "connected"

ConnectPlayer(player_name, outcome) ==
    LET d == SetDefault(connected_players, player_name)
        driver == <<<<"do_connect_player", player_name, outcome>>>>
        creates == outcome \in {"connected", "not_connected"}
        fresh == IF outcome = "connected"
                     THEN NewPlayer(player_name)
                     ELSE [NewPlayer(player_name) EXCEPT !.connected = FALSE, !.on_bus = FALSE]
        id == Len(players) + 1
    IN  IF AlreadyConnected(d, player_name)
        THEN /\ connected_players' = d
             /\ last' = Call("ConnectPlayer", player_name, NoCall, NoSignal,
                             Some(ObjectPath(players[The(d[player_name])].name)), "None", "None")
             /\ UNCHANGED <<players, PlayerLost>>
        ELSE /\ creates => Len(players) < MaxPlayers
             /\ IF outcome = "TypeError"
                THEN /\ connected_players' = d
                     /\ last' = Call("ConnectPlayer", player_name, driver, NoSignal,
                                     None, InstantiationError, "TypeError")
                     /\ UNCHANGED <<players, PlayerLost>>
                ELSE IF Usable(outcome)
                THEN /\ players' = Append(players, [fresh EXCEPT !.disconnect_cb = Some("_player_lost_cb")])
                     /\ connected_players' = SetItem(d, player_name, Some(id))
                     /\ last' = Call("ConnectPlayer", player_name, driver, NoSignal,
                                     Some(ObjectPath(fresh.name)), "None", "None")
                     /\ UNCHANGED PlayerLost
                ELSE /\ players' = IF creates THEN Append(players, fresh) ELSE players
                     /\ connected_players' = d
                     /\ last' = Call("ConnectPlayer", player_name, driver, NoSignal,
                                     None, "ConnectPlayerError", "None")
                     /\ UNCHANGED PlayerLost

IsConnected_Always(p) == TRUE

\* the guard of BasePlayer.disconnect
IsConnected(p) == players[p].connected

\* the guard of _player_lost_cb
IsRegistered(d, name) == name \in DOMAIN d

Forget_Keep(d, name) == d

\* `del self._connected_players[player.name]`
Forget(d, name) == Del(d, name)

Callable_Never(cb) == FALSE

\* `callable(self._disconnect_cb)`: the callback is None or a bound method
Callable(cb) == Truthy(cb)

\* BasePlayer.disconnect, with the _player_lost_cb it calls.  The calls it
\* makes are recorded as <<callee, name of the player, "None">>.
disconnect(p) ==
    IF IsConnected(p)
    THEN LET gone == [players EXCEPT ![p].connected = FALSE, ![p].on_bus = FALSE]
             name == players[p].name
             called == Callable(players[p].disconnect_cb)
             lost == called /\ IsRegistered(connected_players, name)
         IN  /\ players' = gone
             /\ connected_players' = IF lost THEN Forget(connected_players, name)
                                             ELSE connected_players
             /\ PlayerLost' = IF lost THEN [PlayerLost EXCEPT ![name] = @ + 1] ELSE PlayerLost
             /\ last' = Call("disconnect", p,
                             <<<<"remove_from_connection", name, "None">>>>
                                 \o (IF called THEN <<<<"_disconnect_cb", name, "None">>>>
                                               ELSE NoCall),
                             IF lost THEN <<<<"PlayerLost", name>>>> ELSE NoSignal,
                             None, "None", "None")
    ELSE /\ last' = Call("disconnect", p, NoCall, NoSignal, None, "None", "None")
         /\ UNCHANGED registry_vars

----------------------------------------------------------------------------
(* Enumerations *)

CAPS_NEXT == 1

CAPS_PREV == 2

CAPS_PAUSE == 4

CAPS_PLAY == 8

CAPS_SEEK == 16

CAPS_PROVIDE_METADATA == 32

AllCaps == {CAPS_NEXT, CAPS_PREV, CAPS_PAUSE, CAPS_PLAY, CAPS_SEEK, CAPS_PROVIDE_METADATA}

REPEAT_NONE == 0

REPEAT_TRACK == 1

REPEAT_ALL == 2

AllRepeat == {REPEAT_NONE, REPEAT_TRACK, REPEAT_ALL}

STATUS_PLAYING == 0

STATUS_PAUSED == 1

STATUS_STOPPED == 2

AllStatus == {STATUS_PLAYING, STATUS_PAUSED, STATUS_STOPPED}

----------------------------------------------------------------------------
(* Timer (osdlyrics.timer): a run state and a position in milliseconds *)

\* Timer()
NewTimer == [state |-> "stopped", time |-> 0]

\* Timer.play / Timer.pause / Timer.stop: the value is kept, only frozen
TimerCall(t, method) ==
    [t EXCEPT !.state = CASE method = "play" -> "running"
                          [] method = "pause" -> "paused"
                          [] method = "stop" -> "stopped"]

\* Timer.time = value
TimerSetTime(t, value) == [t EXCEPT !.time = value]

\* the wall clock advances by dt milliseconds
TimerElapse(t, dt) == IF t.state = "running" THEN [t EXCEPT !.time = @ + dt] ELSE t

----------------------------------------------------------------------------
(* BasePlayer: a call works on a record of the object's attributes, to which *)
(* it adds the backend calls it makes, the signals it emits, its result and  *)
(* the exception that ended it.                                              *)

Self ==
    [timer |-> timer, status |-> status, loop_status |-> loop_status,
     metadata |-> metadata, current_trackid |-> current_trackid, caps |-> caps,
     shuffle |-> shuffle, calls |-> NoCall, events |-> NoSignal, ret |-> None,
     err |-> "None"]

Ok(s) == s.err = "None"

Return(s, value) == [s EXCEPT !.ret = Some(value)]

Raise(s, e) == [s EXCEPT !.err = e, !.ret = None]

\* what calling a method the derived class does not implement raises: the base
\* class raises NotImplementedError, and has no open_uri or play_pause at all
Unimplemented(method) ==
    IF method \in {"open_uri", "play_pause"} THEN "AttributeError" ELSE "NotImplementedError"

\* a call of the backend method, which answers `answer` when it is implemented
\* Each call is recorded as <<method, arguments, result>>, the result being None
\* when the call raised.
BackendCall(s, method, args, answer) ==
    LET Answered(a) == Return([s EXCEPT !.calls = Append(@, <<method, args, Some(a)>>)], a)
    IN  IF method \in backend \/ method \in {"get_metadata", "get_position", "get_caps"}
        THEN Answered(answer)
        ELSE IF method = "get_repeat" THEN Answered(REPEAT_NONE)
        ELSE IF method = "get_shuffle" THEN Answered(FALSE)
        ELSE Raise([s EXCEPT !.calls = Append(@, <<method, args, None>>)],
                   Unimplemented(method))

\* the D-Bus property machinery: an assignment to a property emits its change
PropertyChanged(s, property, value) ==
    [s EXCEPT !.events = Append(@, <<"PropertiesChanged", property, value>>)]

\* `x is None`
IsNone(o) == o = None

Digit(d) == <<"0", "1", "2", "3", "4", "5", "6", "7", "8", "9">>[d + 1]

RECURSIVE Decimal(_)
\* str(n) for n >= 0
Decimal(n) == IF n < 10 THEN <<Digit(n)>> ELSE Decimal(n \div 10) \o <<Digit(n % 10)>>

\* _get_current_trackid: '/%s' % self._current_trackid
get_current_trackid(s) == <<"/">> \o Decimal(s.current_trackid)

make_metadata_FirstTrack(s, md) == [title |-> md, trackid |-> <<"/", "0">>]

\* _make_metadata: the Metadata's to_mpris2() dict with 'mpris:trackid' added
make_metadata(s, md) == [title |-> md, trackid |-> get_current_trackid(s)]

setup_timer_status_Never(s, st) == s

\* _setup_timer_status
setup_timer_status(s, st) ==
    LET method == CASE st = STATUS_PAUSED -> "pause"
                    [] st = STATUS_PLAYING -> "play"
                    [] st = STATUS_STOPPED -> "stop"
    IN  IF Truthy(s.timer)
        THEN [s EXCEPT !.timer = Some(TimerCall(The(s.timer), method))]
        ELSE s

get_cached_status_Uncached(s, answer) ==
    LET r == BackendCall(s, "get_status", <<>>, answer)
    IN  IF Ok(r) THEN [r EXCEPT !.status = r.ret] ELSE r

\* _get_cached_status
get_cached_status(s, answer) ==
    IF IsNone(s.status)
    THEN LET r == BackendCall(s, "get_status", <<>>, answer)
         IN  IF Ok(r) THEN [r EXCEPT !.status = r.ret] ELSE r
    ELSE Return(s, The(s.status))

\* _get_cached_loop_status
get_cached_loop_status(s, answer) ==
    IF IsNone(s.loop_status)
    THEN LET r == BackendCall(s, "get_repeat", <<>>, answer)
         IN  IF Ok(r) THEN [r EXCEPT !.loop_status = r.ret] ELSE r
    ELSE Return(s, The(s.loop_status))

\* _get_cached_metadata
get_cached_metadata(s, answer) ==
    IF IsNone(s.metadata)
    THEN LET r == BackendCall(s, "get_metadata", <<>>, answer)
             md == make_metadata(r, The(r.ret))
         IN  IF Ok(r) THEN Return([r EXCEPT !.metadata = Some(md)], md) ELSE r
    ELSE Return(s, The(s.metadata))

\* _get_cached_caps
get_cached_caps(s, answer) ==
    IF IsNone(s.caps)
    THEN LET r == BackendCall(s, "get_caps", <<>>, answer)
         IN  IF Ok(r) THEN [r EXCEPT !.caps = r.ret] ELSE r
    ELSE Return(s, The(s.caps))

\* _get_cached_shuffle
get_cached_shuffle(s, answer) ==
    IF IsNone(s.shuffle)
    THEN LET r == BackendCall(s, "get_shuffle", <<>>, answer)
         IN  IF Ok(r) THEN [r EXCEPT !.shuffle = r.ret] ELSE r
    ELSE Return(s, The(s.shuffle))

\* _setup_timer
setup_timer(s, status_answer) ==
    IF IsNone(s.timer)
    THEN LET made == [s EXCEPT !.timer = Some(NewTimer)]
             r == get_cached_status(made, status_answer)
         IN  IF Ok(r) THEN setup_timer_status(r, The(r.ret)) ELSE r
    ELSE s

Seeded_Always(st) == TRUE

\* the test of line 437: `self._get_cached_status() != STATUS.STOPPED`
Seeded(st) == st # STATUS_STOPPED

\* _get_cached_position
get_cached_position(s, status_answer, position_answer) ==
    IF IsNone(s.timer)
    THEN LET t == setup_timer(s, status_answer)
             st == get_cached_status(t, status_answer)
             pos == BackendCall(st, "get_position", <<>>, position_answer)
         IN  IF ~Ok(t) THEN t
             ELSE IF ~Ok(st) THEN st
             ELSE IF Seeded(The(st.ret))
             THEN Return([pos EXCEPT !.timer = Some(TimerSetTime(The(pos.timer), The(pos.ret)))],
                         The(pos.ret))
             ELSE Return(st, The(st.timer).time)
    ELSE Return(s, The(s.timer).time)

----------------------------------------------------------------------------
(* BasePlayer: the D-Bus methods and properties *)

\* a method of out_signature '' returns nothing
Void(s) == IF Ok(s) THEN [s EXCEPT !.ret = None] ELSE s

FloorDiv_Truncating(a, b) == IF a >= 0 THEN a \div b ELSE -((-a) \div b)

\* Python's a // b, b > 0: rounds toward negative infinity
FloorDiv(a, b) == a \div b

Next(s) == Void(BackendCall(s, "next", <<>>, "void"))

Previous(s) == Void(BackendCall(s, "prev", <<>>, "void"))

Pause(s) == Void(BackendCall(s, "pause", <<>>, "void"))

Stop(s) == Void(BackendCall(s, "stop", <<>>, "void"))

Play(s) == Void(BackendCall(s, "play", <<>>, "void"))

\* `if pos < 0: pos = 0`
ClampAtZero(pos) == IF pos < 0 THEN 0 ELSE pos

Seek_MovingTimer(s, offset, status_answer, position_answer) ==
    LET p == get_cached_position(s, status_answer, position_answer)
        pos == ClampAtZero(The(p.ret) + FloorDiv(offset, 1000))
        moved == [p EXCEPT !.timer = Some(TimerSetTime(The(p.timer), pos))]
    IN  IF Ok(p) THEN Void(BackendCall(moved, "set_position", <<pos>>, "void")) ELSE p

Seek(s, offset, status_answer, position_answer) ==
    LET p == get_cached_position(s, status_answer, position_answer)
        pos == ClampAtZero(The(p.ret) + FloorDiv(offset, 1000))
    IN  IF Ok(p) THEN Void(BackendCall(p, "set_position", <<pos>>, "void")) ELSE p

StaleTrackId_Never(s, trackid) == FALSE

\* `trackid != self._get_current_trackid()`
StaleTrackId(s, trackid) == trackid # get_current_trackid(s)

SetPosition(s, trackid, position) ==
    IF StaleTrackId(s, trackid)
    THEN Void(s)
    ELSE Void(BackendCall(s, "set_position", <<FloorDiv(position, 1000)>>, "void"))

HasAttr_Never(method) == FALSE

\* `hasattr(self, 'play_pause')`: the base class does not define play_pause
HasAttr(method) == method \in backend

PlayPause(s, status_answer) ==
    IF HasAttr("play_pause")
    THEN Void(BackendCall(s, "play_pause", <<>>, "void"))
    ELSE LET st == get_cached_status(s, status_answer)
         IN  IF ~Ok(st) THEN st
             ELSE IF The(st.ret) = STATUS_PLAYING
             THEN Void(BackendCall(st, "pause", <<>>, "void"))
             ELSE Void(BackendCall(st, "play", <<>>, "void"))

OpenUri(s, uri) == Void(BackendCall(s, "open_uri", <<uri>>, "void"))

\* status_map of PlaybackStatus
PlaybackStatusName(st) ==
    CASE st = STATUS_PLAYING -> "Playing"
      [] st = STATUS_PAUSED -> "Paused"
      [] st = STATUS_STOPPED -> "Stopped"

PlaybackStatus(s, answer) ==
    LET st == get_cached_status(s, answer)
    IN  IF Ok(st) THEN Return(st, PlaybackStatusName(The(st.ret))) ELSE st

\* status_map of LoopStatus
LoopStatusName(mode) ==
    CASE mode = REPEAT_NONE -> "None"
      [] mode = REPEAT_ALL -> "Playlist"
      [] mode = REPEAT_TRACK -> "Track"

LoopStatus(s, answer) ==
    LET ls == get_cached_loop_status(s, answer)
    IN  IF Ok(ls) THEN Return(ls, LoopStatusName(The(ls.ret))) ELSE ls

\* LoopStatus.dbus_setter
LoopStatus_dbus_setter(s, name) ==
    IF name \notin {"None", "Playlist", "Track"}
    THEN Raise(s, "ValueError")
    ELSE LET mode == CASE name = "None" -> REPEAT_NONE
                       [] name = "Playlist" -> REPEAT_ALL
                       [] name = "Track" -> REPEAT_TRACK
         IN  Void(BackendCall(s, "set_repeat", <<mode>>, "void"))

Shuffle(s, answer) == get_cached_shuffle(s, answer)

Shuffle_dbus_setter_Caching(s, value) ==
    LET r == BackendCall(s, "set_shuffle", <<value>>, "void")
    IN  IF Ok(r) THEN Void([r EXCEPT !.shuffle = Some(value)]) ELSE r

\* Shuffle.dbus_setter
Shuffle_dbus_setter(s, value) == Void(BackendCall(s, "set_shuffle", <<value>>, "void"))

Metadata(s, answer) == get_cached_metadata(s, answer)

\* volumes are in tenths: 10 is 1.0
Volume(s, answer) == BackendCall(s, "get_volume", <<>>, answer)

\* Volume.dbus_setter
Volume_dbus_setter(s, volume) ==
    LET low == IF volume < 0 THEN 0 ELSE volume
        clamped == IF low > 10 THEN 10 ELSE low
    IN  Void(BackendCall(s, "set_volume", <<clamped>>, "void"))

Position(s, status_answer, position_answer) ==
    get_cached_position(s, status_answer, position_answer)

\* caps_map of caps_changed, also the capability each Can* property tests
CapsMapOrder == <<CAPS_NEXT, CAPS_PREV, CAPS_PLAY, CAPS_PAUSE, CAPS_SEEK>>

CapsMap(cap) ==
    CASE cap = CAPS_NEXT -> "CanGoNext"
      [] cap = CAPS_PREV -> "CanGoPrevious"
      [] cap = CAPS_PLAY -> "CanPlay"
      [] cap = CAPS_PAUSE -> "CanPause"
      [] cap = CAPS_SEEK -> "CanSeek"

\* CanGoNext, CanGoPrevious, CanPlay, CanPause, CanSeek
Can(s, cap, answer) ==
    LET c == get_cached_caps(s, answer)
    IN  IF Ok(c) THEN Return(c, cap \in The(c.ret)) ELSE c

----------------------------------------------------------------------------
(* BasePlayer: the notifications the backend drives *)

IncrementTrackId_Assign(id) == 1

\* `self._current_trackid += 1`
IncrementTrackId(id) == id + 1

track_changed_NoResync(s, given, position_answer, metadata_answer) ==
    LET s1 == [s EXCEPT !.current_trackid = IncrementTrackId(@)]
        m == BackendCall(s1, "get_metadata", <<>>, metadata_answer)
        s3 == IF IsNone(given) THEN m ELSE Return(s1, The(given))
        md == make_metadata(s3, The(s3.ret))
    IN  Void(PropertyChanged([s3 EXCEPT !.metadata = Some(md)], "Metadata", md))

track_changed(s, given, position_answer, metadata_answer) ==
    LET s1 == [s EXCEPT !.current_trackid = IncrementTrackId(@)]
        p == BackendCall(s1, "get_position", <<>>, position_answer)
        s2 == IF IsNone(s1.timer) THEN s1
              ELSE [p EXCEPT !.timer = Some(TimerSetTime(The(p.timer), The(p.ret)))]
        m == BackendCall(s2, "get_metadata", <<>>, metadata_answer)
        s3 == IF IsNone(given) THEN m ELSE Return(s2, The(given))
        md == make_metadata(s3, The(s3.ret))
    IN  Void(PropertyChanged([s3 EXCEPT !.metadata = Some(md)], "Metadata", md))

status_changed(s, answer) ==
    LET r == BackendCall(s, "get_status", <<>>, answer)
        t == setup_timer_status(r, The(r.ret))
    IN  IF Ok(r)
        THEN Void(PropertyChanged([t EXCEPT !.status = r.ret], "PlaybackStatus",
                                  PlaybackStatusName(The(r.ret))))
        ELSE r

repeat_changed(s, answer) ==
    LET r == BackendCall(s, "get_repeat", <<>>, answer)
    IN  Void(PropertyChanged([r EXCEPT !.loop_status = r.ret], "LoopStatus",
                             LoopStatusName(The(r.ret))))

shuffle_changed(s, answer) ==
    LET r == BackendCall(s, "get_shuffle", <<>>, answer)
    IN  Void(PropertyChanged([r EXCEPT !.shuffle = r.ret], "Shuffle", The(r.ret)))

\* `cap in orig_caps != cap in self._caps`: Python chains the comparisons, as
\* (cap in orig_caps) and (orig_caps != cap) and (cap in self._caps); the middle
\* one compares a set with an int and is always true
CapChanged(cap, orig_caps, new_caps) == cap \in orig_caps /\ TRUE /\ cap \in new_caps

caps_changed_PublishingFirst(s, answer) ==
    LET orig_caps == IF IsNone(s.caps) THEN Some({}) ELSE s.caps
        r == BackendCall(s, "get_caps", <<>>, answer)
        new == [r EXCEPT !.caps = r.ret]
        changed == SelectSeq(CapsMapOrder,
                             LAMBDA cap : (cap \in The(orig_caps)) # (cap \in The(new.caps)))
        signals == [i \in 1..Len(changed) |->
                      <<"PropertiesChanged", CapsMap(changed[i]), changed[i] \in The(new.caps)>>]
    IN  Void([new EXCEPT !.events = @ \o signals])

caps_changed(s, answer) ==
    LET orig_caps == s.caps
        r == BackendCall(s, "get_caps", <<>>, answer)
        new == [r EXCEPT !.caps = r.ret]
        changed == SelectSeq(CapsMapOrder,
                             LAMBDA cap : CapChanged(cap, The(orig_caps), The(new.caps)))
        signals == [i \in 1..Len(changed) |->
                      <<"PropertiesChanged", CapsMap(changed[i]), changed[i] \in The(new.caps)>>]
    IN  IF IsNone(orig_caps) THEN Void(new)
        ELSE Void([new EXCEPT !.events = @ \o signals])

position_changed(s, position) ==
    LET t == IF IsNone(s.timer) THEN s
             ELSE [s EXCEPT !.timer = Some(TimerSetTime(The(s.timer), position))]
    IN  Void([t EXCEPT !.events = Append(@, <<"Seeked", position * 1000>>)])

\* a call ends: the object keeps the attributes the call left
Commit(op, arg, s) ==
    /\ timer' = s.timer
    /\ status' = s.status
    /\ loop_status' = s.loop_status
    /\ metadata' = s.metadata
    /\ current_trackid' = s.current_trackid
    /\ caps' = s.caps
    /\ shuffle' = s.shuffle
    /\ last' = Call(op, arg, s.calls, s.events, s.ret, s.err, "None")
    /\ UNCHANGED <<registry_vars, backend>>

----------------------------------------------------------------------------
(* Specification of the registry *)

NoCallYet == Call("init", "None", NoCall, NoSignal, None, "None", "None")

InitSession ==
    /\ timer = None
    /\ status = None
    /\ loop_status = None
    /\ metadata = None
    /\ current_trackid = 0
    /\ caps = None
    /\ shuffle = None

OptionalMethods ==
    {"get_status", "get_repeat", "set_repeat", "get_shuffle", "set_shuffle", "play",
     "pause", "stop", "prev", "next", "set_position", "get_volume", "set_volume",
     "open_uri", "play_pause"}

InitRegistry ==
    /\ players = <<>>
    /\ connected_players = [n \in {} |-> None]
    /\ PlayerLost = [n \in PlayerNames |-> 0]
    /\ InitSession
    /\ backend = OptionalMethods
    /\ last = NoCallYet

DoConnectPlayer ==
    \E n \in PlayerNames, o \in DriverOutcomes :
        ConnectPlayer(n, o) /\ UNCHANGED <<session_vars, backend>>

DoDisconnect ==
    \E p \in 1..Len(players) : disconnect(p) /\ UNCHANGED <<session_vars, backend>>

NextRegistry == DoConnectPlayer \/ DoDisconnect

SpecRegistry == InitRegistry /\ [][NextRegistry]_vars

----------------------------------------------------------------------------
(* Specifications of one connected session *)

MaxTrackId == 2

MaxTicks == 2

TickMs == 2500

\* Seek offsets and SetPosition positions, in microseconds
Offsets == {-7000000, -1500, 0, 1999, 2000}

\* what a client may pass as the track id of SetPosition
TrackIdInputs == {<<"/">> \o Decimal(n) : n \in 0..MaxTrackId} \cup {<<"/", "0", "0">>}

LoopStatusInputs == {"None", "Playlist", "Track", "Shuffle"}

VolumeInputs == {-5, 5, 15}

VolumeAnswers == {0, 10}

UriInputs == {"file:///song"}

\* the answers of a backend call: all of them when the call is made, and one,
\* which nothing reads, when it is not
IfAsked(asked, answers) == IF asked THEN answers ELSE {CHOOSE a \in answers : TRUE}

\* the session "a", as ConnectPlayer leaves it, of a derived class of one of `kinds`
InitPlayer(kinds) ==
    /\ players = <<[NewPlayer("a") EXCEPT !.disconnect_cb = Some("_player_lost_cb")]>>
    /\ connected_players = [n \in {"a"} |-> Some(1)]
    /\ PlayerLost = [n \in PlayerNames |-> 0]
    /\ InitSession
    /\ backend \in kinds
    /\ last = NoCallYet

DoNext == Commit("Next", <<>>, Next(Self))

DoPrevious == Commit("Previous", <<>>, Previous(Self))

DoPause == Commit("Pause", <<>>, Pause(Self))

DoStop == Commit("Stop", <<>>, Stop(Self))

DoPlay == Commit("Play", <<>>, Play(Self))

DoSeek(SA, PA) ==
    \E offset \in Offsets, sa \in IfAsked(IsNone(timer) /\ IsNone(status), SA),
       pa \in IfAsked(IsNone(timer), PA) :
        Commit("Seek", <<offset>>, Seek(Self, offset, sa, pa))

DoSetPosition(POS) ==
    \E trackid \in TrackIdInputs, position \in POS :
        Commit("SetPosition", <<trackid, position>>, SetPosition(Self, trackid, position))

DoPlayPause(SA) ==
    \E sa \in IfAsked(IsNone(status), SA) : Commit("PlayPause", <<>>, PlayPause(Self, sa))

DoOpenUri == \E uri \in UriInputs : Commit("OpenUri", <<uri>>, OpenUri(Self, uri))

DoPlaybackStatus(SA) ==
    \E sa \in IfAsked(IsNone(status), SA) :
        Commit("PlaybackStatus", <<>>, PlaybackStatus(Self, sa))

DoLoopStatus(RA) ==
    \E ra \in IfAsked(IsNone(loop_status), RA) :
        Commit("LoopStatus", <<>>, LoopStatus(Self, ra))

DoSetLoopStatus ==
    \E name \in LoopStatusInputs :
        Commit("LoopStatus.dbus_setter", <<name>>, LoopStatus_dbus_setter(Self, name))

DoShuffle(HA) ==
    \E ha \in IfAsked(IsNone(shuffle), HA) : Commit("Shuffle", <<>>, Shuffle(Self, ha))

DoSetShuffle ==
    \E value \in BOOLEAN :
        Commit("Shuffle.dbus_setter", <<value>>, Shuffle_dbus_setter(Self, value))

DoMetadata(MA) ==
    \E ma \in IfAsked(IsNone(metadata), MA) : Commit("Metadata", <<>>, Metadata(Self, ma))

DoVolume == \E va \in VolumeAnswers : Commit("Volume", <<>>, Volume(Self, va))

DoSetVolume ==
    \E volume \in VolumeInputs :
        Commit("Volume.dbus_setter", <<volume>>, Volume_dbus_setter(Self, volume))

DoPosition(SA, PA) ==
    \E sa \in IfAsked(IsNone(timer) /\ IsNone(status), SA),
       pa \in IfAsked(IsNone(timer), PA) :
        Commit("Position", <<>>, Position(Self, sa, pa))

DoCan(CA) ==
    \E i \in DOMAIN CapsMapOrder, ca \in IfAsked(IsNone(caps), CA) :
        Commit(CapsMap(CapsMapOrder[i]), <<>>, Can(Self, CapsMapOrder[i], ca))

DoTrackChanged(PA, MA, GIVEN) ==
    /\ current_trackid < MaxTrackId
    /\ \E given \in {None} \cup {Some(m) : m \in GIVEN} :
       \E pa \in IfAsked(~IsNone(timer), PA), ma \in IfAsked(IsNone(given), MA) :
           Commit("track_changed", <<given>>, track_changed(Self, given, pa, ma))

DoStatusChanged(SA) ==
    \E sa \in SA : Commit("status_changed", <<>>, status_changed(Self, sa))

DoRepeatChanged(RA) ==
    \E ra \in RA : Commit("repeat_changed", <<>>, repeat_changed(Self, ra))

DoShuffleChanged(HA) ==
    \E ha \in HA : Commit("shuffle_changed", <<>>, shuffle_changed(Self, ha))

DoCapsChanged(CA) ==
    \E ca \in CA : Commit("caps_changed", <<>>, caps_changed(Self, ca))

DoPositionChanged(PA) ==
    \E position \in PA :
        Commit("position_changed", <<position>>, position_changed(Self, position))

\* the wall clock advances while the timer runs
Tick ==
    /\ Truthy(timer)
    /\ The(timer).state = "running"
    /\ The(timer).time + TickMs <= MaxTicks * TickMs
    /\ timer' = Some(TimerElapse(The(timer), TickMs))
    /\ last' = Call("clock", <<TickMs>>, NoCall, NoSignal, None, "None", "None")
    /\ UNCHANGED <<registry_vars, backend, status, loop_status, metadata,
                   current_trackid, caps, shuffle>>

\* the methods that touch no attribute of the session
DoControl ==
    \/ DoNext \/ DoPrevious \/ DoPause \/ DoStop \/ DoPlay \/ DoOpenUri
    \/ DoSetLoopStatus \/ DoSetShuffle \/ DoVolume \/ DoSetVolume

(* The capabilities: every set of capabilities the backend may report *)

NextCaps == DoCan(SUBSET AllCaps) \/ DoCapsChanged(SUBSET AllCaps)

SpecCaps == InitPlayer({OptionalMethods}) /\ [][NextCaps]_vars

(* The five caches: every value of each, no timer *)

CapsAnswers == {{}, {CAPS_PLAY, CAPS_SEEK}}

Songs == {"song1", "song2"}

NextCache ==
    \/ DoControl
    \/ DoSetPosition({0})
    \/ DoPlayPause(AllStatus)
    \/ DoPlaybackStatus(AllStatus)
    \/ DoLoopStatus(AllRepeat)
    \/ DoShuffle(BOOLEAN)
    \/ DoMetadata(Songs)
    \/ DoCan(CapsAnswers)
    \/ DoTrackChanged({0}, Songs, Songs)
    \/ DoStatusChanged(AllStatus)
    \/ DoRepeatChanged(AllRepeat)
    \/ DoShuffleChanged(BOOLEAN)
    \/ DoCapsChanged(CapsAnswers)

SpecCache == InitPlayer({OptionalMethods \ {"play_pause"}}) /\ [][NextCache]_vars

(* Position: the timer, the playback status and the track *)

Positions == {0, 5000}

NextPlayer ==
    \/ DoControl
    \/ DoSeek(AllStatus, Positions)
    \/ DoSetPosition(Offsets)
    \/ DoPlayPause(AllStatus)
    \/ DoPlaybackStatus(AllStatus)
    \/ DoMetadata({"song1"})
    \/ DoPosition(AllStatus, Positions)
    \/ DoTrackChanged(Positions, {"song1"}, {"song2"})
    \/ DoStatusChanged(AllStatus)
    \/ DoPositionChanged(Positions)
    \/ Tick

SpecPlayer ==
    InitPlayer({OptionalMethods, OptionalMethods \ {"play_pause"}}) /\ [][NextPlayer]_vars

(* Every method and notification, each cache with one value besides the status *)

NextAll ==
    \/ DoControl
    \/ DoSeek(AllStatus, {0})
    \/ DoSetPosition({0})
    \/ DoPlayPause(AllStatus)
    \/ DoPlaybackStatus(AllStatus)
    \/ DoLoopStatus({REPEAT_ALL})
    \/ DoShuffle({TRUE})
    \/ DoMetadata({"song1"})
    \/ DoPosition(AllStatus, {0})
    \/ DoCan({{CAPS_PLAY}})
    \/ DoTrackChanged({0}, {"song1"}, {"song1"})
    \/ DoStatusChanged(AllStatus)
    \/ DoRepeatChanged({REPEAT_ALL})
    \/ DoShuffleChanged({TRUE})
    \/ DoCapsChanged({{CAPS_PLAY}})
    \/ DoPositionChanged({0})
    \/ Tick

SpecAll == InitPlayer({OptionalMethods \ {"play_pause"}}) /\ [][NextAll]_vars

(* The life of a session on each kind of backend: the derived class that     *)
(* implements every optional method, the one without get_status, and the one *)
(* that implements the three mandatory methods only                          *)

BackendKinds == {OptionalMethods, OptionalMethods \ {"get_status"}, {}}

SessionStatus == {STATUS_PLAYING, STATUS_STOPPED}

NextSession ==
    \/ DoControl
    \/ DoSeek(SessionStatus, {5000})
    \/ DoSetPosition({0})
    \/ DoPlayPause(SessionStatus)
    \/ DoPlaybackStatus(SessionStatus)
    \/ DoLoopStatus({REPEAT_ALL})
    \/ DoShuffle({TRUE})
    \/ DoMetadata({"song1"})
    \/ DoPosition(SessionStatus, {5000})
    \/ DoTrackChanged({5000}, {"song1"}, {"song1"})
    \/ DoStatusChanged(SessionStatus)
    \/ DoRepeatChanged({REPEAT_ALL})
    \/ DoShuffleChanged({TRUE})
    \/ DoPositionChanged({0})
    \/ Tick
    \/ DoDisconnect

SpecSession == InitPlayer(BackendKinds) /\ [][NextSession]_vars

----------------------------------------------------------------------------
(* Properties of the registry *)

Ids(ps) == 1..Len(ps)

\* the name has an entry that is a session whose connected flag is true
HasLive(ps, d, n) == n \in DOMAIN d /\ Truthy(d[n]) /\ ps[The(d[n])].connected

\* the sessions of that name that were registered and have since been lost
LostPlayers(ps, n) ==
    {p \in Ids(ps) : ps[p].name = n /\ ~ps[p].connected /\ Truthy(ps[p].disconnect_cb)}

\* C2: the registry maps a name to a session only if that session is connected,
\* and every loss of a registered session has removed its entry and emitted
\* PlayerLost for its name exactly once: the signals emitted for a name are as
\* many as the registered sessions of that name that are lost, and a call emits
\* at most one signal (none when disconnect is called again).
C2_RegistryOnlyLive ==
    /\ \A n \in DOMAIN connected_players :
           Truthy(connected_players[n]) => players[The(connected_players[n])].connected
    /\ \A n \in PlayerNames : PlayerLost[n] = Cardinality(LostPlayers(players, n))
    /\ Len(last.events) <= 1

\* a lost session is disconnected again while a newer session holds its name
C2_Witness ==
    /\ last.op = "disconnect"
    /\ last.events = NoSignal
    /\ last.arg \in LostPlayers(players, players[last.arg].name)
    /\ HasLive(players, connected_players, players[last.arg].name)
    /\ PlayerLost[players[last.arg].name] = 1

\* C3: a ConnectPlayer(name) that directly follows a successful ConnectPlayer(name)
\* returns the same handle, reaching the same object, makes no driver call and
\* changes nothing; the first call made at most one driver call.
C3_ConnectTwice ==
    [][(/\ last.op = "ConnectPlayer" /\ last.err = "None"
        /\ last'.op = "ConnectPlayer" /\ last'.arg = last.arg)
       => /\ last'.err = "None"
          /\ last'.ret = last.ret
          /\ Resolve(players', The(last'.ret)) = Resolve(players, The(last.ret))
          /\ last'.calls = NoCall
          /\ Len(last.calls) <= 1
          /\ UNCHANGED registry_vars]_vars

\* a connect answered from the registry, without the driver
C3_Witness ==
    /\ last.op = "ConnectPlayer"
    /\ last.err = "None"
    /\ last.calls = NoCall
    /\ Resolve(players, The(last.ret)) = connected_players[last.arg]

\* C4 (as claimed): when do_connect_player raises the instantiation error,
\* ConnectPlayer raises ConnectPlayerError or a subclass of it, with the
\* original error as its cause, and the registry has no entry for the name.
C4_InstantiationFailure ==
    (last.op = "ConnectPlayer" /\ last.cause = "TypeError")
    => /\ IsInstance(last.err, "ConnectPlayerError")
       /\ last.arg \notin DOMAIN connected_players

\* C5: the driver raising yields BaseError carrying the cause; the driver
\* returning None or a player that is not connected yields ConnectPlayerError,
\* which is another class and carries no cause, and then the player (if any)
\* has no disconnect callback and the name's entry holds no session.
C5_TwoFailures ==
    (last.op = "ConnectPlayer" /\ last.calls # NoCall)
    => LET outcome == last.calls[1][3] IN
       /\ outcome = "TypeError"
            => last.err = "BaseError" /\ last.cause = "TypeError" /\ last.ret = None
       /\ outcome \in {"None", "not_connected"}
            => /\ last.err = "ConnectPlayerError"
               /\ ~IsInstance("BaseError", last.err)
               /\ last.cause = "None"
               /\ last.ret = None
               /\ connected_players[last.arg] = None
               /\ outcome = "not_connected"
                    => /\ players[Len(players)].disconnect_cb = None
                       /\ \A n \in DOMAIN connected_players :
                              connected_players[n] # Some(Len(players))

\* the driver returned a player that is not connected
C5_Witness ==
    /\ last.op = "ConnectPlayer"
    /\ last.calls = <<<<"do_connect_player", last.arg, "not_connected">>>>
    /\ last.err = "ConnectPlayerError"

\* C6: a ConnectPlayer(name) made when a registered session of that name has
\* been lost and no live session holds the name invokes the driver once; when
\* it succeeds, the session it registers is a newly created object and the
\* handle it returns reaches that object and no lost session.
C6_ReconnectIsFresh ==
    [][(/\ last'.op = "ConnectPlayer"
        /\ LostPlayers(players, last'.arg) # {}
        /\ ~HasLive(players, connected_players, last'.arg))
       => /\ Len(last'.calls) = 1
          /\ last'.err = "None"
               => /\ Len(players') = Len(players) + 1
                  /\ connected_players'[last'.arg] = Some(Len(players'))
                  /\ Resolve(players', The(last'.ret)) = Some(Len(players'))
                  /\ Resolve(players', The(last'.ret)) \cap LostPlayers(players, last'.arg) = {}
                  /\ players'[Len(players')].connected]_vars

\* a name whose session was lost has been connected again through the driver
C6_Witness ==
    /\ last.op = "ConnectPlayer"
    /\ last.err = "None"
    /\ last.calls # NoCall
    /\ LostPlayers(players, last.arg) # {}
    /\ Resolve(players, The(last.ret)) = connected_players[last.arg]

\* C11: disconnect() on a connected session sets its connected flag to false,
\* unpublishes it once and invokes its registered disconnect callback once;
\* on a session that is not connected it changes nothing, unpublishes nothing
\* and invokes nothing; and no call sets a connected flag back to true, so a
\* session's callback is invoked at most once.
C11_DisconnectIdempotent ==
    [][/\ last'.op = "disconnect"
            => LET p == last'.arg
                   name == players[p].name
               IN  IF players[p].connected
                   THEN /\ ~players'[p].connected
                        /\ ~players'[p].on_bus
                        /\ \A q \in Ids(players) \ {p} : players'[q] = players[q]
                        /\ Truthy(players[p].disconnect_cb)
                        /\ last'.calls = <<<<"remove_from_connection", name, "None">>,
                                            <<"_disconnect_cb", name, "None">>>>
                   ELSE /\ UNCHANGED registry_vars
                        /\ last'.calls = NoCall
                        /\ last'.events = NoSignal
       /\ \A q \in Ids(players) : players'[q].connected => players[q].connected]_vars

\* disconnect() called again on a session that was registered and is lost
C11_Witness ==
    /\ last.op = "disconnect"
    /\ last.calls = NoCall
    /\ ~players[last.arg].connected
    /\ Truthy(players[last.arg].disconnect_cb)
    /\ PlayerLost[players[last.arg].name] >= 1

----------------------------------------------------------------------------
(* Properties of the session *)

Range(seq) == {seq[i] : i \in DOMAIN seq}

DiffedCaps == Range(CapsMapOrder)

\* the calls of `method` among the calls made
CallsOf(calls, method) == {i \in DOMAIN calls : calls[i][1] = method}

\* q = floor(x / 1000), stated without division
IsFloorOfThousandth(q, x) == q * 1000 <= x /\ x < (q + 1) * 1000

\* C1 (as claimed): caps_changed on a populated capability cache publishes a
\* property change for exactly the capabilities among NEXT, PREV, PLAY, PAUSE,
\* SEEK whose membership differs between the old and the new set, each with
\* its new value, and none for a capability whose membership is the same.
C1_CapsChangedPublishesDiff ==
    [][(last'.op = "caps_changed" /\ ~IsNone(caps))
       => /\ Range(last'.events) =
               {<<"PropertiesChanged", CapsMap(c), c \in The(caps')>> :
                    c \in {x \in DiffedCaps : (x \in The(caps)) # (x \in The(caps'))}}
          /\ Len(last'.events) = Cardinality(Range(last'.events))]_vars

\* C7: every track_changed increments the track id by exactly 1 and announces, in
\* the Metadata it publishes once, a track id that none of the earlier values
\* of the counter yields; no other call changes the track id.
C7_TrackIdIncrements ==
    [][/\ last'.op = "track_changed"
            => /\ current_trackid' = current_trackid + 1
               /\ Len(last'.events) = 1
               /\ last'.events[1][2] = "Metadata"
               /\ last'.events[1][3].trackid = <<"/">> \o Decimal(current_trackid')
               /\ \A k \in 0..current_trackid :
                      last'.events[1][3].trackid # <<"/">> \o Decimal(k)
       /\ last'.op # "track_changed" => current_trackid' = current_trackid]_vars

\* the second track change of a session
C7_Witness ==
    /\ last.op = "track_changed"
    /\ current_trackid = 2
    /\ last.events[1][3].trackid = <<"/", "2">>

\* C8: SetPosition(trackid, position) calls the backend's set_position, once,
\* exactly when trackid is the session's current track id; with any other
\* trackid it makes no backend call, emits nothing, raises nothing, returns
\* nothing and changes no attribute of the session.
C8_SetPositionGuard ==
    [][last'.op = "SetPosition"
       => IF last'.arg[1] = <<"/">> \o Decimal(current_trackid)
          THEN /\ Len(last'.calls) = 1
               /\ last'.calls[1][1] = "set_position"
               /\ IsFloorOfThousandth(last'.calls[1][2][1], last'.arg[2])
               /\ UNCHANGED <<session_vars, registry_vars, backend>>
          ELSE /\ last'.calls = NoCall
               /\ last'.events = NoSignal
               /\ last'.err = "None"
               /\ last'.ret = None
               /\ UNCHANGED <<session_vars, registry_vars, backend>>]_vars

\* a SetPosition that names the track announced before the last track change
C8_Witness ==
    /\ last.op = "SetPosition"
    /\ current_trackid = 1
    /\ Truthy(metadata)
    /\ The(metadata).trackid = <<"/", "1">>
    /\ last.arg[1] = <<"/", "0">>
    /\ last.calls = NoCall

\* C9: a Seek(offset) that does not fail makes exactly one set_position call,
\* the last call it makes, with max(0, P + floor(offset / 1000)), P being the
\* timer's position: the argument is never negative, it is P + floor(...)
\* when positive, however large, it is 0 only when P + floor(...) <= 0, and
\* -1500 counts as -2 ms.
C9_SeekTarget ==
    [][(last'.op = "Seek" /\ last'.err = "None")
       => LET P == IF Truthy(timer) THEN The(timer).time ELSE The(timer').time
              offset == last'.arg[1]
              n == Len(last'.calls)
              pos == last'.calls[n][2][1]
          IN  /\ CallsOf(last'.calls, "set_position") = {n}
              /\ pos >= 0
              /\ pos > 0 => IsFloorOfThousandth(pos - P, offset)
              /\ pos = 0 => offset < (1 - P) * 1000
              /\ (P = 5000 /\ offset = -1500) => pos = 4998
              /\ (P = 5000 /\ offset = -7000000) => pos = 0]_vars

\* a Seek by -7,000,000 microseconds at position 5000 ms
C9_Witness ==
    /\ last.op = "Seek"
    /\ last.arg = <<-7000000>>
    /\ Truthy(timer)
    /\ The(timer).time = 5000
    /\ last.calls[Len(last.calls)] = <<"set_position", <<0>>, Some("void")>>

\* a read of a cache cell: through one backend query, whose answer it stores,
\* when the cell is empty, and from the cell, without a query, when it is not
CachedRead(cell, cell2, method, Stored(_), Returned(_)) ==
    IF IsNone(cell)
    THEN last'.err = "None"
         => /\ Len(last'.calls) = 1
            /\ last'.calls[1][1] = method
            /\ cell2 = Some(Stored(The(last'.calls[1][3])))
            /\ last'.ret = Some(Returned(The(cell2)))
    ELSE /\ last'.calls = NoCall
         /\ last'.err = "None"
         /\ cell2 = cell
         /\ last'.ret = Some(Returned(The(cell)))

\* C10: a read of playback status, loop status, shuffle, metadata or a
\* capability makes exactly one backend query when its cache cell is empty and
\* stores the answer, whatever it is; when the cell is populated it makes no
\* query and returns the stored value; and a populated cell is left as it is
\* by every call that is not the change notification of its property.
C10_CachedReads ==
    [][/\ last'.op = "PlaybackStatus"
            => CachedRead(status, status', "get_status",
                          LAMBDA v : v, LAMBDA v : PlaybackStatusName(v))
       /\ last'.op = "LoopStatus"
            => CachedRead(loop_status, loop_status', "get_repeat",
                          LAMBDA v : v, LAMBDA v : LoopStatusName(v))
       /\ last'.op = "Shuffle"
            => CachedRead(shuffle, shuffle', "get_shuffle", LAMBDA v : v, LAMBDA v : v)
       /\ last'.op = "Metadata"
            => CachedRead(metadata, metadata', "get_metadata",
                          LAMBDA v : [title |-> v, trackid |-> <<"/">> \o Decimal(current_trackid)],
                          LAMBDA v : v)
       /\ \A c \in DiffedCaps :
            last'.op = CapsMap(c)
            => CachedRead(caps, caps', "get_caps", LAMBDA v : v, LAMBDA v : c \in v)
       /\ (~IsNone(status) /\ last'.op # "status_changed") => status' = status
       /\ (~IsNone(loop_status) /\ last'.op # "repeat_changed") => loop_status' = loop_status
       /\ (~IsNone(shuffle) /\ last'.op # "shuffle_changed") => shuffle' = shuffle
       /\ (~IsNone(metadata) /\ last'.op # "track_changed") => metadata' = metadata
       /\ (~IsNone(caps) /\ last'.op # "caps_changed") => caps' = caps]_vars

\* a read of the playback status answered from the cache, every cell holding
\* the value that Python takes for false
C10_Witness ==
    /\ last.op = "PlaybackStatus"
    /\ last.calls = NoCall
    /\ last.ret = Some("Playing")
    /\ status = Some(STATUS_PLAYING)
    /\ loop_status = Some(REPEAT_NONE)
    /\ shuffle = Some(FALSE)
    /\ caps = Some({})
    /\ Truthy(metadata)

\* the client's control calls
ControlOps ==
    {"Play", "Pause", "Stop", "Next", "Previous", "Seek", "SetPosition", "PlayPause",
     "OpenUri"}

\* the backend calls among `calls` that returned, rather than raised
Answered(calls) == {i \in DOMAIN calls : calls[i][3] # None}

\* C12 (as claimed): a control call made on a session that has been
\* disconnected fails, having made no backend call that succeeded, and leaves
\* the session disconnected.
C12_ControlAfterDisconnectFails ==
    (last.op \in ControlOps /\ ~players[1].connected)
    => /\ last.err # "None"
       /\ Answered(last.calls) = {}

\* C13 (as claimed): a call that reaches a backend method the derived class
\* does not implement (other than get_repeat and get_shuffle, which default to
\* NONE and false) ends with the error that method raised, and on a backend
\* without get_status every read of Position fails.
C13_UnsupportedFails ==
    last.op \notin {"init", "disconnect", "clock"}
    => /\ \A i \in DOMAIN last.calls :
              last.calls[i][3] = None
              => /\ last.err = Unimplemented(last.calls[i][1])
                 /\ last.ret = None
       /\ \A i \in DOMAIN last.calls :
              (last.calls[i][1] = "get_repeat" /\ "get_repeat" \notin backend)
              => last.calls[i][3] = Some(REPEAT_NONE)
       /\ \A i \in DOMAIN last.calls :
              (last.calls[i][1] = "get_shuffle" /\ "get_shuffle" \notin backend)
              => last.calls[i][3] = Some(FALSE)
       /\ (last.op = "Position" /\ "get_status" \notin backend)
          => last.err = "NotImplementedError"

\* the run state a Timer is in after the call _setup_timer_status makes on it
RunStateOf(st) ==
    CASE st = STATUS_PLAYING -> "running"
      [] st = STATUS_PAUSED -> "paused"
      [] st = STATUS_STOPPED -> "stopped"

\* C14: on a backend whose queries succeed, whenever the session's Timer
\* exists the playback status is cached and the Timer's run state is the one
\* of that status: running for PLAYING, paused for PAUSED, stopped for STOPPED.
C14_TimerMatchesStatus ==
    Truthy(timer)
    => /\ Truthy(status)
       /\ The(timer).state = RunStateOf(The(status))

\* a status change has paused a Timer that had been seeded and had run
C14_Witness ==
    /\ last.op = "status_changed"
    /\ Truthy(timer)
    /\ The(timer).state = "paused"
    /\ The(timer).time = TickMs
    /\ status = Some(STATUS_PAUSED)

\* the answers of the get_position calls among the calls made
Polled(calls) == {The(calls[i][3]) : i \in CallsOf(calls, "get_position")}

\* C15 (as claimed): a Position read or a Seek made when no Timer exists
\* creates it and seeds it from exactly one get_position query whatever the
\* playback status is; a Position read made when the Timer exists returns the
\* Timer's value and makes no get_position query.
C15_SeededWhateverStatus ==
    [][(last'.op \in {"Position", "Seek"} /\ last'.err = "None")
       => IF IsNone(timer)
          THEN /\ Truthy(timer')
               /\ Cardinality(CallsOf(last'.calls, "get_position")) = 1
               /\ Polled(last'.calls) = {The(timer').time}
          ELSE /\ CallsOf(last'.calls, "get_position") = {}
               /\ last'.op = "Position" => last'.ret = Some(The(timer).time)]_vars

\* C15 (amended): a Position read or a Seek made when no Timer exists creates
\* it and, when the playback status is PLAYING or PAUSED, seeds it from exactly
\* one get_position query; when the status is STOPPED it makes no
\* get_position query and the Timer is left at 0.  A Position read then
\* returns the Timer's value; made when the Timer exists, it makes no backend
\* query at all and leaves the Timer as it is.
C15_SeededUnlessStopped ==
    [][(last'.op \in {"Position", "Seek"} /\ last'.err = "None")
       => IF IsNone(timer)
          THEN /\ Truthy(timer')
               /\ Truthy(status')
               /\ IF The(status') # STATUS_STOPPED
                  THEN /\ Cardinality(CallsOf(last'.calls, "get_position")) = 1
                       /\ Polled(last'.calls) = {The(timer').time}
                  ELSE /\ CallsOf(last'.calls, "get_position") = {}
                       /\ The(timer').time = 0
               /\ last'.op = "Position" => last'.ret = Some(The(timer').time)
          ELSE /\ CallsOf(last'.calls, "get_position") = {}
               /\ last'.op = "Position"
                    => /\ last'.calls = NoCall
                       /\ last'.ret = Some(The(timer).time)
                       /\ timer' = timer]_vars

\* the first Position read of a session whose backend reports STOPPED
C15_Witness ==
    /\ last.op = "Position"
    /\ last.calls = <<<<"get_status", <<>>, Some(STATUS_STOPPED)>>>>
    /\ last.ret = Some(0)
    /\ timer = Some([state |-> "stopped", time |-> 0])

\* C16: PlayPause on a backend that has play_pause calls it, once, and
\* nothing else; on a backend that has not, it queries get_status once if and
\* only if the status cache is empty, and then calls pause once and not play
\* when the cached status is PLAYING, play once and not pause when it is
\* PAUSED or STOPPED.
C16_PlayPause ==
    [][last'.op = "PlayPause"
       => IF "play_pause" \in backend
          THEN /\ last'.calls = <<<<"play_pause", <<>>, Some("void")>>>>
               /\ status' = status
          ELSE LET n == Len(last'.calls)
                   action == IF The(status') = STATUS_PLAYING THEN "pause" ELSE "play"
               IN  /\ Truthy(status')
                   /\ IF IsNone(status)
                      THEN /\ n = 2
                           /\ last'.calls[1] = <<"get_status", <<>>, status'>>
                      ELSE /\ n = 1
                           /\ status' = status
                   /\ last'.calls[n] = <<action, <<>>, Some("void")>>
                   /\ The(status') \in {STATUS_PAUSED, STATUS_STOPPED} => action = "play"]_vars

\* PlayPause on a paused player without a combined toggle, from the cache
C16_Witness ==
    /\ last.op = "PlayPause"
    /\ "play_pause" \notin backend
    /\ status = Some(STATUS_PAUSED)
    /\ last.calls = <<<<"play", <<>>, Some("void")>>>>

\* C17 (as claimed): track_changed makes exactly one get_position query and
\* sets the Timer to its answer, publishes Metadata once with the incremented
\* track id, queries get_metadata once when no metadata is given and not at
\* all when it is given, and a Position read that directly follows returns the
\* position that query reported.
C17_TrackChangedPolls ==
    [][/\ last'.op = "track_changed"
            => /\ Cardinality(CallsOf(last'.calls, "get_position")) = 1
               /\ Truthy(timer')
               /\ Polled(last'.calls) = {The(timer').time}
               /\ Cardinality(CallsOf(last'.calls, "get_metadata")) =
                      IF IsNone(last'.arg[1]) THEN 1 ELSE 0
               /\ Len(last'.events) = 1
               /\ last'.events[1][3].trackid = <<"/">> \o Decimal(current_trackid + 1)
       /\ (last.op = "track_changed" /\ last'.op = "Position")
            => Some(The(last'.ret)) = Polled(last.calls)]_vars

\* C17 (amended): track_changed on a session whose Timer exists makes exactly
\* one get_position query and sets the Timer's value to its answer, leaving
\* its run state, and a Position read that directly follows returns that
\* answer without a query; on a session that has no Timer yet it makes no
\* get_position query and creates no Timer.  In both cases it publishes
\* Metadata exactly once, made of the metadata given, or else of the answer of
\* its one get_metadata query, and of the incremented track id, and caches it.
\* A Position read that directly follows a track change made without a Timer
\* is the read that creates the Timer, and returns what it seeds it with.
C17_TrackChangedResync ==
    [][/\ last'.op = "track_changed"
            => LET given == last'.arg[1]
                   asked == CallsOf(last'.calls, "get_metadata")
                   title == IF IsNone(given)
                            THEN {The(last'.calls[i][3]) : i \in asked}
                            ELSE given
                   md == [title |-> The(title),
                          trackid |-> <<"/">> \o Decimal(current_trackid + 1)]
               IN  /\ IF Truthy(timer)
                      THEN /\ Cardinality(CallsOf(last'.calls, "get_position")) = 1
                           /\ Truthy(timer')
                           /\ Polled(last'.calls) = {The(timer').time}
                           /\ The(timer').state = The(timer).state
                      ELSE /\ CallsOf(last'.calls, "get_position") = {}
                           /\ timer' = None
                   /\ Cardinality(asked) = IF IsNone(given) THEN 1 ELSE 0
                   /\ Cardinality(title) = 1
                   /\ last'.events = <<<<"PropertiesChanged", "Metadata", md>>>>
                   /\ metadata' = Some(md)
                   /\ last'.err = "None"
       /\ (last.op = "track_changed" /\ Truthy(timer) /\ last'.op = "Position")
            => /\ Some(The(last'.ret)) = Polled(last.calls)
               /\ last'.calls = NoCall
       /\ (last.op = "track_changed" /\ IsNone(timer) /\ last'.op = "Position")
            => /\ Polled(last.calls) = {}
               /\ Polled(last'.calls) \subseteq last'.ret
               /\ last'.ret = Some(The(timer').time)]_vars

\* a track change, with its metadata given, has moved a Timer that stood at 0
\* to the 5000 ms the backend reported
C17_Witness ==
    /\ last.op = "track_changed"
    /\ last.arg = <<Some("song2")>>
    /\ last.calls = <<<<"get_position", <<>>, Some(5000)>>>>
    /\ Truthy(timer)
    /\ The(timer).time = 5000
    /\ current_trackid = 2

\* C18: a populated cache cell changes its value only in the notification of
\* its property: status in status_changed, loop status in repeat_changed,
\* shuffle in shuffle_changed, metadata in track_changed, capabilities in
\* caps_changed.  Every read, every control call of a client (the setters of
\* LoopStatus, Shuffle and Volume included) and every other notification
\* leaves it as it is.
C18_CacheFrame ==
    [][/\ (Truthy(status) /\ status' # status) => last'.op = "status_changed"
       /\ (Truthy(loop_status) /\ loop_status' # loop_status) => last'.op = "repeat_changed"
       /\ (Truthy(shuffle) /\ shuffle' # shuffle) => last'.op = "shuffle_changed"
       /\ (Truthy(metadata) /\ metadata' # metadata) => last'.op = "track_changed"
       /\ (Truthy(caps) /\ caps' # caps) => last'.op = "caps_changed"
       /\ last'.op \in ControlOps \cup {"LoopStatus.dbus_setter", "Shuffle.dbus_setter",
                                        "Volume.dbus_setter"}
            => /\ Truthy(loop_status) => loop_status' = loop_status
               /\ Truthy(shuffle) => shuffle' = shuffle
               /\ Truthy(status) => status' = status
               /\ metadata' = metadata
               /\ caps' = caps]_vars

\* a client has set the shuffle mode to the opposite of the cached one, every
\* cell being populated, and the shuffle cell holds what it held
C18_Witness ==
    /\ last.op = "Shuffle.dbus_setter"
    /\ last.arg = <<FALSE>>
    /\ last.err = "None"
    /\ shuffle = Some(TRUE)
    /\ Truthy(status)
    /\ Truthy(loop_status)
    /\ Truthy(metadata)
    /\ Truthy(caps)

\* C19: whenever the metadata cache is populated, the track id in the cached
\* metadata is the session's current track id, and a SetPosition that names
\* the track id of the cached metadata reaches the backend's set_position.
C19_CachedTrackIdCurrent ==
    [][/\ Truthy(metadata')
            => The(metadata').trackid = <<"/">> \o Decimal(current_trackid')
       /\ (last'.op = "SetPosition" /\ Truthy(metadata)
           /\ last'.arg[1] = The(metadata).trackid)
            => /\ Len(last'.calls) = 1
               /\ last'.calls[1][1] = "set_position"]_vars

\* a SetPosition with the track id of the metadata cached since the second
\* track change
C19_Witness ==
    /\ last.op = "SetPosition"
    /\ current_trackid = 2
    /\ Truthy(metadata)
    /\ last.arg[1] = The(metadata).trackid
    /\ Len(last.calls) = 1

\* C20: once the Timer exists, its value is changed by position_changed,
\* track_changed and the clock only, and Seek and SetPosition leave the Timer
\* as it is; so a Position read that directly follows a Seek returns the value
\* the Seek computed its target from, and a Seek that directly follows a Seek
\* with the same offset sends the same target to the backend.
C20_SeekLeavesTimer ==
    [][/\ (Truthy(timer) /\ last'.op \notin {"position_changed", "track_changed", "clock"})
            => /\ Truthy(timer')
               /\ The(timer').time = The(timer).time
       /\ (Truthy(timer) /\ last'.op \in {"Seek", "SetPosition"}) => timer' = timer
       /\ (last.op = "Seek" /\ last.err = "None" /\ last'.op = "Position")
            => LET P == The(last'.ret)
                   target == last.calls[Len(last.calls)][2][1]
                   offset == last.arg[1]
               IN  /\ last'.err = "None"
                   /\ P = The(timer).time
                   /\ target > 0 => IsFloorOfThousandth(target - P, offset)
                   /\ target = 0 => offset < (1 - P) * 1000
       /\ (last.op = "Seek" /\ last.err = "None" /\ last'.op = "Seek"
           /\ last'.err = "None" /\ last'.arg = last.arg)
            => last'.calls[Len(last'.calls)] = last.calls[Len(last.calls)]]_vars

\* a Seek forward by 2000 microseconds on a Timer at 5000 ms: the backend is
\* sent 5002 and the Timer still reads 5000
C20_Witness ==
    /\ last.op = "Seek"
    /\ last.arg = <<2000>>
    /\ last.calls = <<<<"set_position", <<5002>>, Some("void")>>>>
    /\ Truthy(timer)
    /\ The(timer).time = 5000

\* C21: caps_changed on a session whose capability cache is empty queries
\* get_caps exactly once, stores the answer, whatever set it is, and publishes
\* nothing; a capability read made once the cache is populated returns the
\* membership in the stored set and makes no backend query.
C21_FirstCapsChangedSilent ==
    [][/\ (last'.op = "caps_changed" /\ IsNone(caps))
            => /\ Len(last'.calls) = 1
               /\ last'.calls[1][1] = "get_caps"
               /\ caps' = last'.calls[1][3]
               /\ Truthy(caps')
               /\ last'.events = NoSignal
               /\ last'.err = "None"
       /\ \A c \in DiffedCaps :
            (last'.op = CapsMap(c) /\ Truthy(caps))
            => /\ last'.calls = NoCall
               /\ last'.ret = Some(c \in The(caps))
               /\ caps' = caps]_vars

\* a caps_changed that stored every capability the backend reported and
\* published nothing, as the first caps_changed of a session does
C21_Witness ==
    /\ last.op = "caps_changed"
    /\ last.calls = <<<<"get_caps", <<>>, Some(AllCaps)>>>>
    /\ last.events = NoSignal
    /\ caps = Some(AllCaps)

\* C22: a ConnectPlayer(name) made when no live session holds the name, in
\* particular one that follows a failed ConnectPlayer(name), invokes the
\* driver once, and returns a handle if and only if the driver returned a
\* connected session; and whenever ConnectPlayer returns a handle, the name
\* is registered to a connected session, which is the object the handle
\* reaches.
C22_RetryAfterFailure ==
    [][last'.op = "ConnectPlayer"
       => LET name == last'.arg IN
          /\ ~HasLive(players, connected_players, name)
               => /\ Len(last'.calls) = 1
                  /\ last'.calls[1][1] = "do_connect_player"
                  /\ last'.err = "None" <=> last'.calls[1][3] = "connected"
          /\ (last.op = "ConnectPlayer" /\ last.err # "None" /\ last.arg = name)
               => Len(last'.calls) = 1
          /\ last'.err = "None"
               => /\ Truthy(last'.ret)
                  /\ HasLive(players', connected_players', name)
                  /\ Resolve(players', The(last'.ret)) = connected_players'[name]
          /\ last'.err # "None"
               => /\ last'.ret = None
                  /\ ~HasLive(players', connected_players', name)]_vars

\* a connect that succeeded through the driver for a name for which the driver
\* had returned a session that was not connected
C22_Witness ==
    /\ last.op = "ConnectPlayer"
    /\ last.err = "None"
    /\ last.calls = <<<<"do_connect_player", last.arg, "connected">>>>
    /\ \E p \in Ids(players) :
           /\ players[p].name = last.arg
           /\ ~players[p].connected
           /\ IsNone(players[p].disconnect_cb)
    /\ LostPlayers(players, last.arg) = {}

====
